---- MODULE Spec2Model ----
(***************************************************************************)
(* GMatrixClient (raiden_libs/network/matrix/client.py): the long-poll     *)
(* loop listen_forever, its exponential backoff, and the background        *)
(* listener greenlet started by start_listener_thread.                     *)
(*                                                                         *)
(* Greenlets are cooperative: a listener only yields while it is suspended *)
(* in _sync (the long poll) or in gevent.sleep (the backoff), so every     *)
(* action below runs one listener from one suspension point to the next.   *)
(***************************************************************************)
EXTENDS Integers, Naturals, FiniteSets, Sequences, TLC

(* ---- bounds of the model ---- *)
MaxTasks == 2          \* listen_forever invocations over the client's life
MaxBase == 1           \* largest bad_sync_timeout passed explicitly
MaxLimit == 12         \* largest bad_sync_timeout_limit configured
MaxFails == 3          \* code >= 500 failures in a row the server produces
MaxCursor == 1         \* sync batches the server delivers
MaxResults == 2        \* entries of a user directory `results` list
MaxUsers == 2          \* distinct user ids the directory returns
MaxListeners == 3      \* callbacks registered on the client

(* ---- program constants ---- *)
DefaultBadSyncTimeout == 5     \* bad_sync_timeout: int = 5
ServerErrorCode == 500         \* if e.code >= 500

Tasks == 1..MaxTasks
None == 0
Bases == 0..MaxBase
Limits == {1, MaxLimit}
Codes == {401, 499, 500, 503}  \* MatrixRequestError.code values tried

Min(a, b) == IF a <= b THEN a ELSE b
Max(a, b) == IF a >= b THEN a ELSE b

RECURSIVE Pow2(_)
Pow2(n) == IF n <= 0 THEN 1 ELSE 2 * Pow2(n - 1)

VARIABLES
    should_listen,           \* self.should_listen
    sync_thread,             \* self.sync_thread: None or the spawned greenlet
    bad_sync_timeout_limit,  \* self.bad_sync_timeout_limit (backoff ceiling)
    sync_token,              \* self.sync_token, the cursor _sync sends and replaces
    ntasks,                  \* listen_forever invocations created so far
    pc,                      \* where each invocation is
    spawned,                 \* invocation was made by gevent.spawn
    exception_handler,       \* invocation has exception_handler is not None
    bad_sync_timeout,        \* the parameter bad_sync_timeout (base)
    cur_timeout,             \* the local _bad_sync_timeout (current delay)
    sleeping,                \* argument of the gevent.sleep in progress
    since,                   \* cursor the latest _sync call was issued with
    (* history, read by the properties only *)
    fails,                   \* code >= 500 failures since the last success
    nsleeps,                 \* gevent.sleep calls since the last success
    cleared,                 \* owner cleared should_listen and has not started again
    event,                   \* what the latest step did
    (* search_user_directory *)
    response,                \* what self.api._send returns
    user_list,               \* what search_user_directory did with it
    (* listener registry *)
    listeners,               \* per category, the registered callbacks in order
    dispatch                 \* the latest dispatch of an event to a category

clientVars == <<should_listen, sync_thread, bad_sync_timeout_limit, sync_token, ntasks>>
taskVars == <<pc, spawned, exception_handler, bad_sync_timeout, cur_timeout, sleeping, since>>
histVars == <<fails, nsleeps, cleared, event>>
searchVars == <<response, user_list>>
registryVars == <<listeners, dispatch>>
auxVars == <<searchVars, registryVars>>
vars == <<clientVars, taskVars, histVars, auxVars>>

(* The record of a step: the listener that ran, how its _sync ended (kind,  *)
(* code), how many code >= 500 failures came before it, whether the step   *)
(* called exception_handler, let the exception leave listen_forever, and   *)
(* issued a new _sync call.                                                *)
Event(t, k, c, p, h, r, i) ==
    [task |-> t, kind |-> k, code |-> c, prior |-> p,
     handled |-> h, raised |-> r, issued |-> i]
NoEvent == Event(None, "none", 0, 0, 0, FALSE, FALSE)

Transient(e) == e.kind = "mre" /\ e.code >= ServerErrorCode
Fatal(e) == e.kind = "exc" \/ (e.kind = "mre" /\ e.code < ServerErrorCode)

(* __init__: should_listen = False, sync_thread = None.  The ceiling is an  *)
(* attribute of the client and is any configured value.                    *)
ListenInit ==
    /\ should_listen = FALSE
    /\ sync_thread = None
    /\ bad_sync_timeout_limit \in Limits
    /\ sync_token = 0
    /\ ntasks = 0
    /\ pc = [t \in Tasks |-> "none"]
    /\ spawned = [t \in Tasks |-> FALSE]
    /\ exception_handler = [t \in Tasks |-> FALSE]
    /\ bad_sync_timeout = [t \in Tasks |-> 0]
    /\ cur_timeout = [t \in Tasks |-> 0]
    /\ sleeping = [t \in Tasks |-> 0]
    /\ since = [t \in Tasks |-> 0]
    /\ fails = [t \in Tasks |-> 0]
    /\ nsleeps = [t \in Tasks |-> 0]
    /\ cleared = FALSE
    /\ event = NoEvent

(***************************************************************************)
(* search_user_directory (lines 90-111).  The JSON the server returns is   *)
(* any value: `results` may be absent, null, a number, a string, an object *)
(* or a list, and the entries of the list may be objects with or without   *)
(* user_id and display_name, strings or null.                              *)
(***************************************************************************)
Value(ty, n, xs) == [type |-> ty, size |-> n, items |-> xs]
Entry(ty, hasId, hasName, id) ==
    [type |-> ty, has_id |-> hasId, has_name |-> hasName, id |-> id]

StrEntry == Entry("str", FALSE, FALSE, 0)
Entries ==
    {Entry("dict", TRUE, n, u) : n \in BOOLEAN, u \in 1..MaxUsers}
        \cup {Entry("dict", FALSE, n, 0) : n \in BOOLEAN}
        \cup {StrEntry, Entry("none", FALSE, FALSE, 0)}

Lists == UNION {[1..n -> Entries] : n \in 0..MaxResults}
Results ==
    {Value("list", Len(xs), xs) : xs \in Lists}
        \cup {Value("none", 0, <<>>), Value("int", 0, <<>>)}
        \cup {Value(ty, n, <<>>) : ty \in {"str", "dict"}, n \in 0..1}
Responses ==
    {[has_results |-> TRUE, results |-> r] : r \in Results}
        \cup {[has_results |-> FALSE, results |-> Value("none", 0, <<>>)]}

Returned(us) == [status |-> "returned", exc |-> "", users |-> us]
Raises(e) == [status |-> "raised", exc |-> e, users |-> <<>>]
NotCalled == [status |-> "not called", exc |-> "", users |-> <<>>]

(* `for _user in response['results']`: what the iteration yields.  A list   *)
(* yields its entries, a string its characters, an object its keys; null   *)
(* and numbers are not iterable.                                           *)
Iterate(v) ==
    CASE v.type = "list" -> Returned(v.items)
      [] v.type \in {"str", "dict"} -> Returned([i \in 1..v.size |-> StrEntry])
      [] OTHER -> Raises("TypeError")

(* `_user['user_id']`, `_user['display_name']`: a missing key of an object  *)
(* is a KeyError; a string or null cannot be indexed by a string.          *)
Subscript(e, key) ==
    IF e.type # "dict" THEN "TypeError"
    ELSE IF (key = "user_id" /\ ~e.has_id) \/ (key = "display_name" /\ ~e.has_name)
         THEN "KeyError"
         ELSE "ok"

(* Lines 106-109: the list comprehension, entry by entry, user_id before    *)
(* display_name; the first exception ends it.                              *)
RECURSIVE Comprehension(_, _)
Comprehension(xs, acc) ==
    IF xs = <<>> THEN Returned(acc)
    ELSE LET e == Head(xs) IN
         IF Subscript(e, "user_id") # "ok" THEN Raises(Subscript(e, "user_id"))
         ELSE IF Subscript(e, "display_name") # "ok"
              THEN Raises(Subscript(e, "display_name"))
              ELSE Comprehension(Tail(xs), Append(acc, e.id))

(* Lines 105-111: try ... except KeyError: return []                        *)
search_user_directory(resp) ==
    LET body == IF ~resp.has_results THEN Raises("KeyError")
                ELSE IF Iterate(resp.results).status = "raised"
                     THEN Iterate(resp.results)
                     ELSE Comprehension(Iterate(resp.results).users, <<>>)
    IN  IF body.status = "raised" /\ body.exc = "KeyError"
        THEN Returned(<<>>)
        ELSE body

NoResponse == [has_results |-> FALSE, results |-> Value("none", 0, <<>>)]

Categories == {"invite", "leave", "presence", "generic", "ephemeral"}
Callbacks == 1..MaxListeners

NoListeners == [c \in Categories |-> <<>>]
NoDispatch == [category |-> "none", raising |-> {}, observed |-> <<>>, propagated |-> FALSE]

Init ==
    /\ ListenInit
    /\ response = NoResponse
    /\ user_list = NotCalled
    /\ listeners = NoListeners
    /\ dispatch = NoDispatch

(* A client that is only asked to search the directory.                    *)
SearchInit ==
    /\ ListenInit
    /\ response \in Responses
    /\ user_list = NotCalled
    /\ listeners = NoListeners
    /\ dispatch = NoDispatch

(* Lines 98-111: one call of search_user_directory.                         *)
SearchUserDirectory ==
    /\ user_list = NotCalled
    /\ user_list' = search_user_directory(response)
    /\ UNCHANGED <<clientVars, taskVars, histVars, response, registryVars>>

SearchNext == SearchUserDirectory

SearchSpec == SearchInit /\ [][SearchNext]_vars

(* The doubling without the ceiling.                                        *)
NextTimeout_uncapped(d, limit) == d * 2

(* The doubling wrapped around at the ceiling instead of cut at it.         *)
NextTimeout_wraps(d, limit) == (d * 2) % limit

(* Line 69: min(_bad_sync_timeout * 2, self.bad_sync_timeout_limit)         *)
NextTimeout(d, limit) == Min(d * 2, limit)

(* The success path forgetting line 60.                                    *)
ResetTimeout_keeps(t) == cur_timeout

(* Line 60: _bad_sync_timeout = bad_sync_timeout                            *)
ResetTimeout(t) == [cur_timeout EXCEPT ![t] = bad_sync_timeout[t]]

(* The test on the code left out: every MatrixRequestError backs off.      *)
IsServerError_any(c) == TRUE

(* The test written as e.code > 500.                                       *)
IsServerError_gt(c) == c > ServerErrorCode

(* Line 63: if e.code >= 500                                                *)
IsServerError(c) == c >= ServerErrorCode

(* `while self.should_listen:` followed by `self._sync(timeout_ms)`: the    *)
(* listener either issues the next long poll with the client's cursor or   *)
(* leaves the loop and returns.                                            *)
LoopTest(t, flag, token) ==
    IF flag
    THEN /\ pc' = [pc EXCEPT ![t] = "sync"]
         /\ since' = [since EXCEPT ![t] = token]
    ELSE /\ pc' = [pc EXCEPT ![t] = "done"]
         /\ UNCHANGED since

(* Lines 55-59: _bad_sync_timeout = bad_sync_timeout; should_listen = True; *)
(* enter the loop and suspend in the first _sync.                          *)
Enter(t, b) ==
    /\ cur_timeout' = [cur_timeout EXCEPT ![t] = b]
    /\ should_listen' = TRUE
    /\ LoopTest(t, TRUE, sync_token)
    /\ event' = Event(t, "enter", 0, 0, 0, FALSE, TRUE)
    /\ UNCHANGED <<sync_token, sleeping, fails, nsleeps>>

(* start_listener_thread: the flag is set and a greenlet is spawned with    *)
(* (timeout_ms, exception_handler); it runs nothing until the caller yields.*)
StartListenerThread(h) ==
    /\ ntasks < MaxTasks
    /\ LET t == ntasks + 1 IN
        /\ ntasks' = t
        /\ should_listen' = TRUE
        /\ sync_thread' = t
        /\ pc' = [pc EXCEPT ![t] = "spawned"]
        /\ spawned' = [spawned EXCEPT ![t] = TRUE]
        /\ exception_handler' = [exception_handler EXCEPT ![t] = h]
        /\ bad_sync_timeout' = [bad_sync_timeout EXCEPT ![t] = DefaultBadSyncTimeout]
    /\ cleared' = FALSE
    /\ event' = NoEvent
    /\ UNCHANGED <<bad_sync_timeout_limit, sync_token, cur_timeout, sleeping, since>>
    /\ UNCHANGED <<fails, nsleeps>>
    /\ UNCHANGED auxVars

(* The spawned greenlet gets the processor and runs listen_forever up to    *)
(* its first _sync.                                                        *)
RunSpawned(t) ==
    /\ pc[t] = "spawned"
    /\ Enter(t, bad_sync_timeout[t])
    /\ UNCHANGED <<sync_thread, bad_sync_timeout_limit, ntasks>>
    /\ UNCHANGED <<spawned, exception_handler, bad_sync_timeout, cleared>>
    /\ UNCHANGED auxVars

(* The owner calls listen_forever itself, with its own bad_sync_timeout.    *)
ListenForever(h, b) ==
    /\ ntasks < MaxTasks
    /\ LET t == ntasks + 1 IN
        /\ ntasks' = t
        /\ exception_handler' = [exception_handler EXCEPT ![t] = h]
        /\ bad_sync_timeout' = [bad_sync_timeout EXCEPT ![t] = b]
        /\ Enter(t, b)
    /\ cleared' = FALSE
    /\ UNCHANGED <<sync_thread, bad_sync_timeout_limit, spawned>>
    /\ UNCHANGED auxVars

(* The owner clears the flag (self.should_listen = False).                 *)
ClearShouldListen ==
    /\ ntasks > 0
    /\ should_listen' = FALSE
    /\ cleared' = TRUE
    /\ event' = NoEvent
    /\ UNCHANGED <<sync_thread, bad_sync_timeout_limit, sync_token, ntasks>>
    /\ UNCHANGED taskVars
    /\ UNCHANGED <<fails, nsleeps>>
    /\ UNCHANGED auxVars

(* Lines 59-60: _sync returns; it has replaced the cursor; the delay is     *)
(* reset to the base; back to the loop test.  The server delivers at most  *)
(* MaxCursor batches.                                                      *)
SyncReturns(t) ==
    /\ pc[t] = "sync"
    /\ sync_token < MaxCursor
    /\ sync_token' = sync_token + 1
    /\ cur_timeout' = ResetTimeout(t)
    /\ fails' = [fails EXCEPT ![t] = 0]
    /\ nsleeps' = [nsleeps EXCEPT ![t] = 0]
    /\ LoopTest(t, should_listen, sync_token + 1)
    /\ event' = Event(t, "ok", 0, fails[t], 0, FALSE, should_listen)
    /\ UNCHANGED <<should_listen, sync_thread, bad_sync_timeout_limit, ntasks>>
    /\ UNCHANGED <<spawned, exception_handler, bad_sync_timeout, sleeping, cleared>>
    /\ UNCHANGED auxVars

(* The sleep taken after the backoff is advanced instead of before.        *)
ServerError_advances_first(t, c) ==
    /\ fails[t] < MaxFails
    /\ pc' = [pc EXCEPT ![t] = "sleep"]
    /\ sleeping' = [sleeping EXCEPT ![t] =
                       NextTimeout(cur_timeout[t], bad_sync_timeout_limit)]
    /\ nsleeps' = [nsleeps EXCEPT ![t] = @ + 1]
    /\ fails' = [fails EXCEPT ![t] = @ + 1]
    /\ event' = Event(t, "mre", c, fails[t], 0, FALSE, FALSE)
    /\ UNCHANGED <<clientVars, since>>

(* The failed iteration treated as having consumed a batch.                *)
ServerError_consumes(t, c) ==
    /\ fails[t] < MaxFails
    /\ pc' = [pc EXCEPT ![t] = "sleep"]
    /\ sleeping' = [sleeping EXCEPT ![t] = cur_timeout[t]]
    /\ nsleeps' = [nsleeps EXCEPT ![t] = @ + 1]
    /\ fails' = [fails EXCEPT ![t] = @ + 1]
    /\ event' = Event(t, "mre", c, fails[t], 0, FALSE, FALSE)
    /\ sync_token' = sync_token + 1
    /\ UNCHANGED <<should_listen, sync_thread, bad_sync_timeout_limit, ntasks, since>>

(* Lines 63-68: code >= 500: warn and suspend in gevent.sleep(delay).  The  *)
(* server fails at most MaxFails times in a row.                           *)
ServerError(t, c) ==
    /\ fails[t] < MaxFails
    /\ pc' = [pc EXCEPT ![t] = "sleep"]
    /\ sleeping' = [sleeping EXCEPT ![t] = cur_timeout[t]]
    /\ nsleeps' = [nsleeps EXCEPT ![t] = @ + 1]
    /\ fails' = [fails EXCEPT ![t] = @ + 1]
    /\ event' = Event(t, "mre", c, fails[t], 0, FALSE, FALSE)
    /\ UNCHANGED <<clientVars, since>>

(* The exception swallowed and the loop resumed.                           *)
Reraise_swallows(t, k, c) ==
    /\ LoopTest(t, should_listen, sync_token)
    /\ event' = Event(t, k, c, fails[t], 0, FALSE, should_listen)
    /\ UNCHANGED <<clientVars, sleeping, nsleeps, fails>>

(* The flag cleared on the way out, as a `finally` would.                  *)
Reraise_clears(t, k, c) ==
    /\ pc' = [pc EXCEPT ![t] = "failed"]
    /\ event' = Event(t, k, c, fails[t], 0, TRUE, FALSE)
    /\ should_listen' = FALSE
    /\ UNCHANGED <<sync_thread, bad_sync_timeout_limit, sync_token, ntasks>>
    /\ UNCHANGED <<since, sleeping, nsleeps, fails>>

(* Lines 70-71 and 76-77: a bare raise leaves listen_forever.               *)
Reraise(t, k, c) ==
    /\ pc' = [pc EXCEPT ![t] = "failed"]
    /\ event' = Event(t, k, c, fails[t], 0, TRUE, FALSE)
    /\ UNCHANGED <<clientVars, since, sleeping, nsleeps, fails>>

(* Lines 61-71: except MatrixRequestError as e.                            *)
SyncRequestError(t, c) ==
    /\ pc[t] = "sync"
    /\ IF IsServerError(c)
       THEN ServerError(t, c)
       ELSE Reraise(t, "mre", c)
    /\ UNCHANGED <<spawned, exception_handler, bad_sync_timeout, cur_timeout, cleared>>
    /\ UNCHANGED auxVars

(* Line 69 after gevent.sleep returns, then the loop test.                 *)
SleepDone(t) ==
    /\ pc[t] = "sleep"
    /\ cur_timeout' = [cur_timeout EXCEPT ![t] =
                          NextTimeout(cur_timeout[t], bad_sync_timeout_limit)]
    /\ sleeping' = [sleeping EXCEPT ![t] = 0]
    /\ LoopTest(t, should_listen, sync_token)
    /\ event' = Event(t, "woke", 0, fails[t], 0, FALSE, should_listen)
    /\ UNCHANGED clientVars
    /\ UNCHANGED <<spawned, exception_handler, bad_sync_timeout>>
    /\ UNCHANGED <<fails, nsleeps, cleared>>
    /\ UNCHANGED auxVars

(* Lines 74-75: exception_handler(e), then the loop test.                  *)
Handle(t) ==
    /\ LoopTest(t, should_listen, sync_token)
    /\ event' = Event(t, "exc", 0, fails[t], 1, FALSE, should_listen)
    /\ UNCHANGED <<clientVars, sleeping, nsleeps, fails>>

(* A handled exception counted as a recovery that resets the backoff.      *)
SyncException_resets(t) ==
    /\ pc[t] = "sync"
    /\ IF exception_handler[t]
       THEN Handle(t)
       ELSE Reraise(t, "exc", 0)
    /\ cur_timeout' = ResetTimeout(t)
    /\ UNCHANGED <<spawned, exception_handler, bad_sync_timeout, cleared>>
    /\ UNCHANGED auxVars

(* Lines 72-77: except Exception as e.                                     *)
SyncException(t) ==
    /\ pc[t] = "sync"
    /\ IF exception_handler[t]
       THEN Handle(t)
       ELSE Reraise(t, "exc", 0)
    /\ UNCHANGED <<spawned, exception_handler, bad_sync_timeout, cur_timeout, cleared>>
    /\ UNCHANGED auxVars

(***************************************************************************)
(* The add_*_listener methods (lines 157-170) and the dispatch of an event *)
(* to the callbacks of a category.                                         *)
(***************************************************************************)
Registered == UNION {{listeners[c][i].cb : i \in 1..Len(listeners[c])} : c \in Categories}

(* geventify_callback(callback): the callback is run in a greenlet of its   *)
(* own, so what it raises stays in that greenlet.                          *)
Geventify(cb) == [cb |-> cb, wrapped |-> TRUE]

(* The callback handed to the parent class as it is.                       *)
AddListener_raw(cat, cb) ==
    /\ cb \notin Registered
    /\ cb = Cardinality(Registered) + 1
    /\ listeners' = [listeners EXCEPT ![cat] = Append(@, [cb |-> cb, wrapped |-> FALSE])]
    /\ dispatch' = NoDispatch
    /\ UNCHANGED <<clientVars, taskVars, histVars, searchVars>>

(* Lines 157-170: add_invite_listener, add_leave_listener,                  *)
(* add_presence_listener, add_listener, add_ephemeral_listener: the parent *)
(* class appends geventify_callback(callback) to the category's list.  The *)
(* callbacks are numbered in the order of their registration.              *)
AddListener(cat, cb) ==
    /\ cb \notin Registered
    /\ cb = Cardinality(Registered) + 1
    /\ listeners' = [listeners EXCEPT ![cat] = Append(@, Geventify(cb))]
    /\ dispatch' = NoDispatch
    /\ UNCHANGED <<clientVars, taskVars, histVars, searchVars>>

(* The callbacks of `ls` called in order with the event; `raising` are the  *)
(* ones that raise.  A geventified callback cannot abort the dispatch; a   *)
(* bare one that raises ends it and the exception reaches the caller.      *)
RECURSIVE Invoke(_, _, _)
Invoke(ls, raising, seen) ==
    IF ls = <<>>
    THEN [observed |-> seen, propagated |-> FALSE]
    ELSE LET l == Head(ls) IN
         IF ~l.wrapped /\ l.cb \in raising
         THEN [observed |-> Append(seen, l.cb), propagated |-> TRUE]
         ELSE Invoke(Tail(ls), raising, Append(seen, l.cb))

(* An event of the category arrives in a sync batch and is dispatched.     *)
Dispatch(cat, raising) ==
    /\ listeners[cat] # <<>>
    /\ raising \subseteq {listeners[cat][i].cb : i \in 1..Len(listeners[cat])}
    /\ LET r == Invoke(listeners[cat], raising, <<>>) IN
        dispatch' = [category |-> cat, raising |-> raising,
                     observed |-> r.observed, propagated |-> r.propagated]
    /\ UNCHANGED <<clientVars, taskVars, histVars, searchVars, listeners>>

RegistryNext ==
    \/ \E cat \in Categories, cb \in Callbacks : AddListener(cat, cb)
    \/ \E cat \in Categories, raising \in SUBSET Callbacks : Dispatch(cat, raising)

(* A client on which listeners are registered and events dispatched.       *)
RegistrySpec == Init /\ [][RegistryNext]_vars

(* `except Exception` written as `except BaseException`.                    *)
CatchesException_base(k) == k \in {"exc", "exit"}

(* Line 72: `except Exception` catches every error _sync raises except a    *)
(* MatrixRequestError, which line 61 has taken; gevent.GreenletExit, which *)
(* kill() raises, derives from BaseException and is not caught.            *)
CatchesException(k) == k = "exc"

(* No except clause matches: the exception leaves listen_forever and ends   *)
(* the greenlet, which gevent takes as a normal exit.                      *)
Exit(t) ==
    /\ pc' = [pc EXCEPT ![t] = "stopped"]
    /\ event' = Event(t, "exit", 0, fails[t], 0, FALSE, FALSE)
    /\ UNCHANGED <<clientVars, since, sleeping, nsleeps, fails>>

(* The owner kills the listener greenlet while it is suspended in _sync or  *)
(* in gevent.sleep: GreenletExit is raised there and meets lines 61-77.    *)
Kill(t) ==
    /\ spawned[t]
    /\ pc[t] \in {"sync", "sleep"}
    /\ IF CatchesException("exit")
       THEN IF exception_handler[t] THEN Handle(t) ELSE Reraise(t, "exit", 0)
       ELSE Exit(t)
    /\ UNCHANGED <<spawned, exception_handler, bad_sync_timeout, cur_timeout, cleared>>
    /\ UNCHANGED auxVars

Next ==
    \/ \E h \in BOOLEAN : StartListenerThread(h)
    \/ \E h \in BOOLEAN, b \in Bases : ListenForever(h, b)
    \/ ClearShouldListen
    \/ \E t \in Tasks : RunSpawned(t)
    \/ \E t \in Tasks : SyncReturns(t)
    \/ \E t \in Tasks, c \in Codes : SyncRequestError(t, c)
    \/ \E t \in Tasks : SyncException(t)
    \/ \E t \in Tasks : SleepDone(t)
    \/ \E t \in Tasks : Kill(t)

Spec == Init /\ [][Next]_vars

(* gevent resumes a runnable greenlet: a spawned listener starts and a      *)
(* backoff sleep ends.                                                     *)
Fairness == \A t \in Tasks : WF_vars(RunSpawned(t)) /\ WF_vars(SleepDone(t))

FairSpec == Spec /\ Fairness

(***************************************************************************)
(* Properties                                                              *)
(***************************************************************************)
Started(t) == pc[t] \notin {"none", "spawned"}
Running(t) == pc[t] \in {"spawned", "sync", "sleep"}

(* C1 as stated: the k-th code >= 500 failure since the last success is     *)
(* answered by exactly one sleep of min(base * 2^(k-1), ceiling).          *)
C1_SleepIsCappedPower ==
    \A t \in Tasks : pc[t] = "sleep" =>
        /\ nsleeps[t] = fails[t]
        /\ sleeping[t] = Min(bad_sync_timeout[t] * Pow2(fails[t] - 1),
                             bad_sync_timeout_limit)

(* C1 amended: the k-th code >= 500 failure since the last success (or the  *)
(* start of the loop) is answered by exactly one sleep; the first lasts    *)
(* base, whatever the ceiling, and the k-th (k >= 2) lasts                 *)
(* min(base * 2^(k-1), ceiling).                                           *)
C1_BackoffSequence ==
    /\ Transient(event) => pc[event.task] = "sleep"
    /\ \A t \in Tasks : pc[t] = "sleep" =>
        /\ nsleeps[t] = fails[t]
        /\ sleeping[t] = IF fails[t] = 1
                         THEN bad_sync_timeout[t]
                         ELSE Min(bad_sync_timeout[t] * Pow2(fails[t] - 1),
                                  bad_sync_timeout_limit)

(* Third failure in a row, doubled once uncapped and then cut at the ceiling. *)
C1_Witness ==
    \E t \in Tasks :
        /\ pc[t] = "sleep" /\ fails[t] = 3
        /\ bad_sync_timeout[t] * 2 < bad_sync_timeout_limit
        /\ bad_sync_timeout[t] * 4 > bad_sync_timeout_limit
        /\ sleeping[t] = bad_sync_timeout_limit

(* C2 as stated: a fatal failure (anything but a MatrixRequestError with    *)
(* code >= 500) met with an exception_handler does not end the loop; the   *)
(* handler is called exactly once with it.                                 *)
C2_HandlerAbsorbsFatal ==
    (Fatal(event) /\ exception_handler[event.task]) =>
        /\ pc[event.task] # "failed"
        /\ ~event.raised
        /\ event.handled = 1

(* C3: a fatal failure without exception_handler leaves listen_forever by   *)
(* the raise, with no handler call, no sleep and no new _sync call, and    *)
(* the ended invocation never does anything again.                         *)
C3_FatalTerminates ==
    /\ [](((Fatal(event) /\ ~exception_handler[event.task]) =>
            /\ pc[event.task] = "failed"
            /\ event.raised
            /\ ~event.issued
            /\ event.handled = 0))
    /\ [][\A t \in Tasks : pc[t] = "failed" =>
            /\ pc'[t] = "failed"
            /\ event'.task # t
            /\ cur_timeout'[t] = cur_timeout[t]
            /\ sleeping'[t] = sleeping[t]
            /\ since'[t] = since[t]]_vars

(* A 401 without handler ended a listener that had been retrying.          *)
C3_Witness ==
    \E t \in Tasks :
        /\ pc[t] = "failed" /\ ~exception_handler[t]
        /\ event.task = t /\ event.kind = "mre" /\ event.code = 401
        /\ event.prior > 0

(* C4 as stated: at most one _sync call of the client is in flight.        *)
C4_OneSyncInFlight == Cardinality({t \in Tasks : pc[t] = "sync"}) <= 1

(* C5 as stated: while a listener spawned by start_listener_thread is       *)
(* running, no step spawns another one or replaces sync_thread.            *)
C5_StartIdempotent ==
    [][(\E t \in Tasks : spawned[t] /\ Running(t)) =>
          (sync_thread' = sync_thread /\ spawned' = spawned)]_vars

(* C6 as stated: once the owner has cleared should_listen after             *)
(* start_listener_thread, and the owner does not start again, no listener  *)
(* issues a new _sync call.                                                *)
C6_NoSyncAfterClear == cleared => ~event.issued

(* C7 as stated: the delay is within [base, ceiling], and so is every sleep. *)
C7_DelayWithinBaseAndLimit ==
    \A t \in Tasks : Started(t) =>
        /\ bad_sync_timeout[t] <= cur_timeout[t]
        /\ cur_timeout[t] <= bad_sync_timeout_limit
        /\ pc[t] = "sleep" =>
            /\ bad_sync_timeout[t] <= sleeping[t]
            /\ sleeping[t] <= bad_sync_timeout_limit

(* C7 amended: the delay, and every sleep, is within                        *)
(* [min(base, ceiling), max(base, ceiling)], which is [base, ceiling] when *)
(* base <= ceiling.                                                        *)
C7_DelayWithinRange ==
    \A t \in Tasks : Started(t) =>
        LET lo == Min(bad_sync_timeout[t], bad_sync_timeout_limit)
            hi == Max(bad_sync_timeout[t], bad_sync_timeout_limit)
        IN  /\ lo <= cur_timeout[t] /\ cur_timeout[t] <= hi
            /\ pc[t] = "sleep" => (lo <= sleeping[t] /\ sleeping[t] <= hi)

(* A delay that grew from a base below the ceiling and was cut at it.      *)
C7_Witness ==
    \E t \in Tasks :
        /\ pc[t] = "sync" /\ fails[t] >= 2
        /\ 0 < bad_sync_timeout[t]
        /\ bad_sync_timeout[t] < bad_sync_timeout_limit
        /\ cur_timeout[t] = bad_sync_timeout_limit
        /\ cur_timeout[t] < bad_sync_timeout[t] * Pow2(fails[t])

(* C8: a successful _sync leaves the delay at the base however many         *)
(* failures came before, and the first code >= 500 failure after it sleeps *)
(* exactly base.                                                           *)
C8_ResetOnSuccess ==
    /\ event.kind = "ok" => cur_timeout[event.task] = bad_sync_timeout[event.task]
    /\ \A t \in Tasks :
        (pc[t] = "sleep" /\ fails[t] = 1) => sleeping[t] = bad_sync_timeout[t]

(* A success after two failures in a row, which had raised the delay.      *)
C8_Witness ==
    /\ event.kind = "ok" /\ event.prior >= 2
    /\ bad_sync_timeout[event.task] > 0
    /\ bad_sync_timeout[event.task] * 2 <= bad_sync_timeout_limit
    /\ cur_timeout[event.task] = bad_sync_timeout[event.task]

(* C9: a code >= 500 failure never ends listen_forever, is never raised to  *)
(* the caller nor handed to exception_handler; it puts the listener to     *)
(* sleep, and unless should_listen is cleared or the listener is killed    *)
(* the sleep is followed by another _sync call.                            *)
C9_TransientRetried ==
    /\ [](Transient(event) =>
            /\ pc[event.task] = "sleep"
            /\ ~event.raised
            /\ event.handled = 0)
    /\ \A t \in Tasks :
        (pc[t] = "sleep") ~> (pc[t] = "sync" \/ pc[t] = "stopped" \/ ~should_listen)

(* The retry after the third failure in a row.                             *)
C9_Witness ==
    /\ event.kind = "woke" /\ event.issued
    /\ fails[event.task] = 3
    /\ pc[event.task] = "sync"

WellFormed(resp) ==
    /\ resp.has_results
    /\ resp.results.type = "list"
    /\ \A i \in 1..Len(resp.results.items) :
        LET e == resp.results.items[i] IN e.type = "dict" /\ e.has_id /\ e.has_name

Ids(resp) == [i \in 1..Len(resp.results.items) |-> resp.results.items[i].id]

(* C11 as stated: search_user_directory never raises because of the shape   *)
(* of the response: an absent or malformed `results` gives the empty list, *)
(* a well-formed one gives one user per entry, in order.                   *)
C11_SearchNeverRaises ==
    user_list # NotCalled =>
        /\ user_list.status = "returned"
        /\ user_list.users = IF WellFormed(response) THEN Ids(response) ELSE <<>>
(* C12: a listener killed while suspended in _sync or in the backoff sleep  *)
(* stops: exception_handler is not called, no error is raised to the owner,*)
(* no further _sync call is issued, and the stopped listener never runs    *)
(* again.                                                                  *)
C12_CancelStops ==
    /\ [](event.kind = "exit" =>
            /\ pc[event.task] = "stopped"
            /\ event.handled = 0
            /\ ~event.raised
            /\ ~event.issued)
    /\ [][\A t \in Tasks : pc[t] = "stopped" =>
            /\ pc'[t] = "stopped"
            /\ event'.task # t
            /\ since'[t] = since[t]
            /\ cur_timeout'[t] = cur_timeout[t]]_vars

(* A listener with a handler killed in the middle of a backoff sleep.      *)
C12_Witness ==
    /\ event.kind = "exit"
    /\ pc[event.task] = "stopped"
    /\ exception_handler[event.task]
    /\ fails[event.task] > 0
    /\ sleeping[event.task] > 0
(* C13: a dispatch to a category calls every registered listener of the     *)
(* category, in registration order, whichever of them raise, and no        *)
(* listener's exception reaches the sync loop; so with 3 listeners of      *)
(* which the 2nd raises, the 1st and the 3rd still observe the event.      *)
C13_DispatchIsolated ==
    dispatch.category # "none" =>
        /\ dispatch.observed =
             [i \in 1..Len(listeners[dispatch.category]) |->
                listeners[dispatch.category][i].cb]
        /\ ~dispatch.propagated

(* Three listeners of one category, the second of which raised.            *)
C13_Witness ==
    /\ dispatch.category # "none"
    /\ Len(listeners[dispatch.category]) = 3
    /\ dispatch.raising = {listeners[dispatch.category][2].cb}
    /\ Len(dispatch.observed) = 3
(* C14: a listener goes to sleep only in the step in which its _sync failed *)
(* with a code >= 500, and that step starts exactly one sleep of the       *)
(* current delay; a successful _sync is followed at once by the loop test  *)
(* and the next _sync call, with no sleep.                                 *)
C14_SleepOnlyAfterTransient ==
    [][\A t \in Tasks :
        /\ (pc'[t] = "sleep" /\ pc[t] # "sleep") =>
              /\ pc[t] = "sync"
              /\ event'.task = t /\ Transient(event')
              /\ sleeping'[t] = cur_timeout[t]
        /\ (event'.task = t /\ Transient(event')) =>
              /\ pc'[t] = "sleep"
              /\ nsleeps'[t] = nsleeps[t] + 1
        /\ (event'.task = t /\ event'.kind = "ok") =>
              /\ pc'[t] = (IF should_listen THEN "sync" ELSE "done")
              /\ event'.issued = should_listen
              /\ nsleeps'[t] = 0
        /\ (pc[t] = "sleep" /\ pc'[t] # "sleep") =>
              pc'[t] \in {"sync", "done", "stopped"}]_vars

(* A success after failures, followed at once by the next _sync call.      *)
C14_Witness ==
    /\ event.kind = "ok" /\ event.issued /\ event.prior > 0
    /\ pc[event.task] = "sync"
    /\ nsleeps[event.task] = 0

(* C15 as stated: between two resets the delay never decreases, for every   *)
(* base and ceiling.                                                       *)
C15_DelayNeverDecreases ==
    [][\A t \in Tasks :
        cur_timeout'[t] < cur_timeout[t] => (event'.task = t /\ event'.kind = "ok")]_vars

(* C15 amended: between two resets the delay never decreases when           *)
(* base <= ceiling; when base > ceiling it decreases exactly once, from    *)
(* base to the ceiling after the first sleep, and is constant afterwards.  *)
C15_DelayMonotoneAboveBase ==
    [][\A t \in Tasks :
        cur_timeout'[t] < cur_timeout[t] =>
            \/ event'.task = t /\ event'.kind = "ok"
            \/ /\ bad_sync_timeout[t] > bad_sync_timeout_limit
               /\ event'.task = t /\ event'.kind = "woke"
               /\ fails[t] = 1
               /\ cur_timeout[t] = bad_sync_timeout[t]
               /\ cur_timeout'[t] = bad_sync_timeout_limit]_vars

(* Three sleeps in a row, each longer than the one before.                 *)
C15_Witness ==
    \E t \in Tasks :
        /\ pc[t] = "sleep" /\ fails[t] = 3
        /\ bad_sync_timeout[t] > 0
        /\ sleeping[t] = bad_sync_timeout[t] * 4
        /\ sleeping[t] < bad_sync_timeout_limit

(* C16: an iteration whose exception exception_handler absorbs changes      *)
(* neither the delay nor the count of failures, performs no sleep, and     *)
(* goes straight to the loop test and the next _sync call.                 *)
C16_HandledKeepsBackoff ==
    [][\A t \in Tasks : (event'.task = t /\ event'.handled = 1) =>
            /\ cur_timeout'[t] = cur_timeout[t]
            /\ fails'[t] = fails[t]
            /\ nsleeps'[t] = nsleeps[t]
            /\ sleeping'[t] = sleeping[t]
            /\ pc'[t] = (IF should_listen THEN "sync" ELSE "done")
            /\ event'.issued = should_listen]_vars

(* A handled exception in the middle of a doubling sequence.               *)
C16_Witness ==
    /\ event.handled = 1 /\ event.issued
    /\ fails[event.task] >= 1
    /\ cur_timeout[event.task] > bad_sync_timeout[event.task]
    /\ cur_timeout[event.task] < bad_sync_timeout_limit

(* C17: only the owner's clearing step takes should_listen from true to     *)
(* false; the raise that ends listen_forever leaves should_listen and      *)
(* sync_thread as they are, so unless the owner cleared it the flag is     *)
(* true once a listener was started, and sync_thread refers to the         *)
(* greenlet spawned last, finished or not.                                 *)
C17_FlagOnlyClearedByOwner ==
    /\ [][(should_listen /\ ~should_listen') => (event' = NoEvent /\ cleared')]_vars
    /\ [][event'.raised =>
            (should_listen' = should_listen /\ sync_thread' = sync_thread)]_vars
    /\ []((ntasks > 0 /\ ~cleared) => should_listen)
    /\ [](\A t \in Tasks :
            (spawned[t] /\ \A u \in Tasks : u > t => ~spawned[u]) => sync_thread = t)

(* A spawned listener ended by an unhandled error: flag and reference stay. *)
C17_Witness ==
    \E t \in Tasks :
        /\ spawned[t] /\ pc[t] = "failed"
        /\ event.task = t /\ event.raised
        /\ sync_thread = t
        /\ should_listen
====
